---- MODULE Spec2Model ----
(***************************************************************************)
(* The prescription-verification backend: the FastAPI handlers            *)
(* check_interactions and dosage_alternatives of src/backend/main.py and  *)
(* the helpers of src/backend/helpers.py they call.                       *)
(*                                                                         *)
(* The external collaborators (the NER extractor, the RxNorm REST         *)
(* service) are inputs: every call draws its answer from a small set of   *)
(* the shapes the service can answer with.  Text is a sequence of          *)
(* one-character strings, so that lower() and the substring test `in` are *)
(* computed as Python computes them.                                       *)
(***************************************************************************)
EXTENDS Integers, Sequences, FiniteSets, TLC

\* ------------------------------------------------------------------ bounds
\* longest extractor output given to check_interactions
MaxMentions == 3
\* longest extractor output given to dosage_alternatives
MaxDosageMentions == 2
\* most data rows of the reference CSV
MaxRows == 2

\* ------------------------------------------------------------ input domains
Names == {"Paracetamol", "Acetaminophen", "Warfarin"}
Ids == {"161", "11289"}
\* the slots of the requests in flight
Reqs == {1, 2}

\* Python's None
None == "None"

\* ---------------------------------------------------------------- text
LowerMap ==
    ("A" :> "a") @@ ("B" :> "b") @@ ("C" :> "c") @@ ("D" :> "d") @@ ("E" :> "e") @@
    ("F" :> "f") @@ ("G" :> "g") @@ ("H" :> "h") @@ ("I" :> "i") @@ ("J" :> "j") @@
    ("K" :> "k") @@ ("L" :> "l") @@ ("M" :> "m") @@ ("N" :> "n") @@ ("O" :> "o") @@
    ("P" :> "p") @@ ("Q" :> "q") @@ ("R" :> "r") @@ ("S" :> "s") @@ ("T" :> "t") @@
    ("U" :> "u") @@ ("V" :> "v") @@ ("W" :> "w") @@ ("X" :> "x") @@ ("Y" :> "y") @@
    ("Z" :> "z")

\* str.lower()
Lower(s) == [k \in 1..Len(s) |-> IF s[k] \in DOMAIN LowerMap THEN LowerMap[s[k]] ELSE s[k]]

\* Python's `sub in s` on strings
Contains(sub, s) ==
    \E k \in 0..(Len(s) - Len(sub)) : SubSeq(s, k + 1, k + Len(sub)) = sub

RiskOfSevereBleeding ==
    <<"R","i","s","k"," ","o","f"," ","s","e","v","e","r","e"," ","b","l","e","e","d","i","n","g">>
MonitorForCaution ==
    <<"M","o","n","i","t","o","r"," ","f","o","r"," ","c","a","u","t","i","o","n">>
NoNotableEffect ==
    <<"N","o"," ","n","o","t","a","b","l","e"," ","e","f","f","e","c","t">>

SevereKeywords ==
    { <<"i","n","c","r","e","a","s","e">>, <<"r","i","s","k">>,
      <<"h","a","r","m","f","u","l">>, <<"s","e","v","e","r","e">> }
CautionKeywords ==
    { <<"d","e","c","r","e","a","s","e">>, <<"m","o","n","i","t","o","r">>,
      <<"c","a","u","t","i","o","n">> }

\* The three fixed messages (each starts with an emoji in the source).
SevereAlert == "Severe interaction detected. Immediate consultation advised."
HighRiskAlert == "High-risk interaction detected. Use with caution."
NoRiskAlert == "No severe interaction risk detected. Monitor patient as usual."

\* Mutant of get_ibm_granite_alerts: the caution keywords tested first.
get_ibm_granite_alerts_CautionFirst(text) ==
    LET text_lower == Lower(text)
    IN  IF \E kw \in CautionKeywords : Contains(kw, text_lower) THEN HighRiskAlert
        ELSE IF \E kw \in SevereKeywords : Contains(kw, text_lower) THEN SevereAlert
        ELSE NoRiskAlert

get_ibm_granite_alerts(text) ==
    LET text_lower == Lower(text)
    IN  IF \E kw \in SevereKeywords : Contains(kw, text_lower) THEN SevereAlert
        ELSE IF \E kw \in CautionKeywords : Contains(kw, text_lower) THEN HighRiskAlert
        ELSE NoRiskAlert

\* ------------------------------------------------------ reference dataset
\* The rows a reference CSV may hold.
RowPool ==
    { [RxCUI_1 |-> "161", RxCUI_2 |-> "11289", Drug_1 |-> "Paracetamol",
       Drug_2 |-> "Warfarin", Description |-> RiskOfSevereBleeding],
      [RxCUI_1 |-> "11289", RxCUI_2 |-> "161", Drug_1 |-> "Warfarin",
       Drug_2 |-> "Paracetamol", Description |-> MonitorForCaution],
      [RxCUI_1 |-> "161", RxCUI_2 |-> "11289", Drug_1 |-> "Acetaminophen",
       Drug_2 |-> "Warfarin", Description |-> NoNotableEffect] }

\* The CSV file on disk: absent, or a header line and up to MaxRows rows.
FileMissing == [exists |-> FALSE, rows |-> <<>>]
HeaderOnly == [exists |-> TRUE, rows |-> <<>>]
Files ==
    {FileMissing} \cup
    { [exists |-> TRUE, rows |-> s] : s \in UNION { [1..k -> RowPool] : k \in 0..MaxRows } }

\* pd.DataFrame(): no rows and no columns
EmptyFrame == [columns |-> FALSE, rows |-> <<>>]

load_ddi_dataset(file) ==
    IF file.exists THEN [columns |-> TRUE, rows |-> file.rows] ELSE EmptyFrame

\* -------------------------------------------------- outcomes of a call
Return(v) == [raised |-> "", value |-> v]
Raise(e) == [raised |-> e, value |-> None]

\* ------------------------------------------------------------ get_rxcui
\* What GET rxcui.json can answer: the transport fails, the status is an
\* error, or a JSON body with or without idGroup / rxnormId.
RxcuiResponses ==
    { [kind |-> k, rxnormId |-> <<>>] :
        k \in {"transport_error", "http_error", "no_idGroup", "no_rxnormId"} } \cup
    { [kind |-> "idGroup", rxnormId |-> l] : l \in UNION { [1..k -> Ids] : k \in 0..2 } }

get_rxcui(resp) ==
    CASE resp.kind \in {"transport_error", "http_error"} -> Return(None)
      [] resp.kind \in {"no_idGroup", "no_rxnormId"} -> Return(None)
      [] OTHER ->
            IF Len(resp.rxnormId) = 0 THEN Raise("IndexError")
            ELSE Return(resp.rxnormId[1])

\* ----------------------------------------------------- related.json lookups
\* What GET rxcui/{id}/related.json can answer: the transport fails, the
\* status is an error, or a JSON body in which relatedGroup, conceptGroup,
\* the first group or its conceptProperties may be missing.
RelatedResponses(propsSet) ==
    { [kind |-> k, conceptProperties |-> <<>>] :
        k \in {"transport_error", "http_error", "no_relatedGroup", "no_conceptGroup",
               "empty_conceptGroup", "no_conceptProperties"} } \cup
    { [kind |-> "conceptProperties", conceptProperties |-> p] : p \in propsSet }

Concept(name, rxcui) == [name |-> name, rxcui |-> rxcui]

FormProps == { <<>>, <<Concept("Acetaminophen 500 MG Oral Tablet", "198440")>> }
IngredientProps == { <<>>, <<Concept("Acetaminophen", "161")>> }
BrandProps == { <<>>, <<Concept("Tylenol 500 MG Oral Tablet", "209459")>> }

\* [concept['name'] for concept in ...conceptProperties]
ConceptNames(props) == [k \in 1..Len(props) |-> props[k].name]

\* data['relatedGroup']['conceptGroup'][0]['conceptProperties'], reached only
\* when both keys of the `if` are present
ConceptProperties(resp) ==
    CASE resp.kind = "empty_conceptGroup" -> Raise("IndexError")
      [] resp.kind = "no_conceptProperties" -> Raise("KeyError")
      [] OTHER -> Return(resp.conceptProperties)

get_dosage_forms(resp) ==
    CASE resp.kind \in {"transport_error", "http_error"} -> Return(<<>>)
      [] resp.kind \in {"no_relatedGroup", "no_conceptGroup"} -> Return(<<>>)
      [] OTHER ->
            LET props == ConceptProperties(resp)
            IN  IF props.raised # "" THEN props ELSE Return(ConceptNames(props.value))

\* The first request of get_alternatives (tty=IN), lines 146-157: `skip` says
\* that the function returns [] without the second request.
AlternativesIngredient(resp) ==
    CASE resp.kind \in {"transport_error", "http_error"} ->
            [raised |-> "", value |-> None, skip |-> TRUE]
      [] resp.kind \in {"no_relatedGroup", "no_conceptGroup"} ->
            [raised |-> "", value |-> None, skip |-> TRUE]
      [] OTHER ->
            LET props == ConceptProperties(resp)
            IN  IF props.raised # "" THEN [raised |-> props.raised, value |-> None, skip |-> TRUE]
                ELSE IF Len(props.value) = 0
                THEN [raised |-> "IndexError", value |-> None, skip |-> TRUE]
                ELSE [raised |-> "", value |-> props.value[1].rxcui,
                      skip |-> props.value[1].rxcui = ""]

\* The second request of get_alternatives (tty=SBD), lines 159-170
AlternativesProducts(resp) == get_dosage_forms(resp)

\* get_alternatives: `second` says whether the second request was issued
get_alternatives(resp1, resp2) ==
    LET ing == AlternativesIngredient(resp1)
    IN  IF ing.raised # "" THEN [raised |-> ing.raised, value |-> <<>>, second |-> FALSE]
        ELSE IF ing.skip THEN [raised |-> "", value |-> <<>>, second |-> FALSE]
        ELSE LET alt == AlternativesProducts(resp2)
             IN  [raised |-> alt.raised, value |-> alt.value, second |-> TRUE]

\* ------------------------------------------------------- the handlers' state
VARIABLES
    ddi_df,     \* helpers.ddi_df, loaded at import
    pc,         \* where each request's handler stands
    locals,     \* each handler's local variables
    response,   \* the HTTP response of a finished request
    calls       \* the collaborator calls a request has issued, in order

vars == <<ddi_df, pc, locals, response, calls>>

NoLocals ==
    [kind |-> "none", extracted_drugs |-> <<>>, n |-> 0, rxcui_map |-> <<>>,
     found_rxcui |-> <<>>, i |-> 0, j |-> 0, interactions |-> <<>>,
     results |-> <<>>, age |-> 0, text |-> <<>>,
     rxcui |-> None, dosage_forms |-> <<>>, ingredient_rxcui |-> None]

NoResponse == [status |-> 0, message |-> "", payload |-> <<>>]

\* Mutant of NoDrugsFound: an empty extraction answered as an empty success.
NoDrugsFound_EmptySuccess ==
    [status |-> 200, message |-> "No drugs found in the prescription.", payload |-> <<>>]

\* raise HTTPException(status_code=404, ...)
NoDrugsFound ==
    [status |-> 404, message |-> "No drugs found in the prescription.", payload |-> <<>>]

\* an exception the handler does not catch: FastAPI answers 500
Unhandled(e) == [status |-> 500, message |-> e, payload |-> <<>>]

Ok(msg, payload) == [status |-> 200, message |-> msg, payload |-> payload]

NotEnoughMessage == "Not enough drugs with RxCUIs found to check for interactions."
CheckedMessage == "Interactions checked successfully."

\* query_hugging_face_ner: the lists of drug names the extractor can return
ExtractorOutputs(max) == UNION { [1..k -> Names] : k \in 0..max }

\* The handlers are `async def` without an await, so the event loop runs one
\* request at a time; a new request takes the first slot.
FreeSlot(r) == \A q \in Reqs : pc[q] = "idle" /\ r <= q

Call(op, arg) == [op |-> op, arg |-> arg]

\* ------------------------------------------------------ check_interactions
\* d[key] = value on a dict kept in insertion order
DictSet(d, key, value) ==
    IF \E k \in 1..Len(d) : d[k].drug = key
    THEN [k \in 1..Len(d) |-> IF d[k].drug = key THEN [drug |-> key, rxcui |-> value] ELSE d[k]]
    ELSE Append(d, [drug |-> key, rxcui |-> value])

\* [rxcui for rxcui in rxcui_map.values() if rxcui is not None]
FoundRxcui(d) ==
    LET Keep(e) == e.rxcui # None
    IN  [k \in 1..Len(SelectSeq(d, Keep)) |-> SelectSeq(d, Keep)[k].rxcui]

\* Mutant of MatchesPair: the mask without its second, swapped, disjunct.
MatchesPair_Ordered(row, rxcui1, rxcui2) ==
    row.RxCUI_1 = rxcui1 /\ row.RxCUI_2 = rxcui2

\* the boolean mask of the dataset filter, for one row
MatchesPair(row, rxcui1, rxcui2) ==
    \/ (row.RxCUI_1 = rxcui1 /\ row.RxCUI_2 = rxcui2)
    \/ (row.RxCUI_1 = rxcui2 /\ row.RxCUI_2 = rxcui1)

\* ddi_df[mask]: the matching rows, in row order; KeyError without the column
QueryDdi(df, rxcui1, rxcui2) ==
    IF ~df.columns THEN Raise("KeyError")
    ELSE LET Hit(row) == MatchesPair(row, rxcui1, rxcui2)
         IN  Return(SelectSeq(df.rows, Hit))

\* the dict appended for one matching row
InteractionResult(row) ==
    [drug1 |-> row.Drug_1, drug2 |-> row.Drug_2,
     rxcui1 |-> row.RxCUI_1, rxcui2 |-> row.RxCUI_2,
     description |-> row.Description,
     alert |-> get_ibm_granite_alerts(row.Description)]

\* Mutant of RowResults: only the first matching row is reported.
RowResults_FirstOnly(rows) ==
    IF Len(rows) = 0 THEN <<>> ELSE <<InteractionResult(rows[1])>>

\* Mutant of RowResults: the severe results moved to the front.
RowResults_SevereFirst(rows) ==
    LET all == [k \in 1..Len(rows) |-> InteractionResult(rows[k])]
        IsSevere(e) == e.alert = SevereAlert
        NotSevere(e) == e.alert # SevereAlert
    IN  SelectSeq(all, IsSevere) \o SelectSeq(all, NotSevere)

RowResults(rows) == [k \in 1..Len(rows) |-> InteractionResult(rows[k])]

\* the (i, j) after (i, j) in the nested range loops over a list of length len;
\* <<0, 0>> when the loops are over
NextPair(i, j, len) ==
    IF j < len THEN <<i, j + 1>>
    ELSE IF i + 2 <= len THEN <<i + 1, i + 2>>
    ELSE <<0, 0>>

\* the (i, j) the nested loops visit, in order, from (i, j) on
RECURSIVE PairsFrom(_, _, _)
PairsFrom(i, j, len) ==
    IF i = 0 THEN <<>>
    ELSE LET nxt == NextPair(i, j, len)
         IN  <<<<i, j>>>> \o PairsFrom(nxt[1], nxt[2], len)

\* the list lines 61-82 build from found_rxcui, for a dataset with its columns
RECURSIVE InteractionsOver(_, _, _)
InteractionsOver(df, found, pairs) ==
    IF pairs = <<>> THEN <<>>
    ELSE RowResults(QueryDdi(df, found[Head(pairs)[1]], found[Head(pairs)[2]]).value)
            \o InteractionsOver(df, found, Tail(pairs))

FindInteractions(df, found) ==
    IF Len(found) < 2 THEN <<>>
    ELSE InteractionsOver(df, found, PairsFrom(1, 2, Len(found)))

Finish(r, resp) ==
    /\ pc' = [pc EXCEPT ![r] = "done"]
    /\ response' = [response EXCEPT ![r] = resp]

\* lines 48-50 for the extractor output drugs
CheckInteractions_Extract(r, drugs) ==
    /\ pc[r] = "idle"
    /\ locals' = [locals EXCEPT ![r] =
            [NoLocals EXCEPT !.kind = "check_interactions",
                             !.extracted_drugs = drugs, !.n = 1]]
    /\ IF drugs = <<>>
       THEN Finish(r, NoDrugsFound)
       ELSE /\ pc' = [pc EXCEPT ![r] = "resolve"]
            /\ UNCHANGED response
    /\ UNCHANGED <<ddi_df, calls>>

CheckInteractions_Begin(r) ==
    /\ FreeSlot(r)
    /\ \E drugs \in ExtractorOutputs(MaxMentions) : CheckInteractions_Extract(r, drugs)

\* Mutant of CheckInteractions_Resolve: a name already in rxcui_map is not
\* looked up again.
CheckInteractions_Resolve_Cached(r) ==
    /\ pc[r] = "resolve"
    /\ LET l == locals[r]
           drug == l.extracted_drugs[l.n]
           known == \E k \in 1..Len(l.rxcui_map) : l.rxcui_map[k].drug = drug
           after == IF l.n = Len(l.extracted_drugs) THEN "collect" ELSE "resolve"
       IN  IF known
           THEN /\ locals' = [locals EXCEPT ![r].n = l.n + 1]
                /\ pc' = [pc EXCEPT ![r] = after]
                /\ UNCHANGED <<response, calls>>
           ELSE \E resp \in RxcuiResponses :
                 LET out == get_rxcui(resp)
                 IN  /\ calls' = [calls EXCEPT ![r] = Append(@, Call("get_rxcui", <<drug>>))]
                     /\ IF out.raised # ""
                        THEN /\ Finish(r, Unhandled(out.raised))
                             /\ UNCHANGED locals
                        ELSE /\ locals' = [locals EXCEPT
                                     ![r].rxcui_map = DictSet(l.rxcui_map, drug, out.value),
                                     ![r].n = l.n + 1]
                             /\ pc' = [pc EXCEPT ![r] = after]
                             /\ UNCHANGED response
    /\ UNCHANGED ddi_df

\* Mutant of CheckInteractions_Resolve: the lookups stop as soon as two
\* identifiers are found.
CheckInteractions_Resolve_Early(r) ==
    /\ pc[r] = "resolve"
    /\ LET l == locals[r]
           drug == l.extracted_drugs[l.n]
       IN  \E resp \in RxcuiResponses :
            LET out == get_rxcui(resp)
                map == DictSet(l.rxcui_map, drug, out.value)
            IN  /\ calls' = [calls EXCEPT ![r] = Append(@, Call("get_rxcui", <<drug>>))]
                /\ IF out.raised # ""
                   THEN /\ Finish(r, Unhandled(out.raised))
                        /\ UNCHANGED locals
                   ELSE /\ locals' = [locals EXCEPT ![r].rxcui_map = map, ![r].n = l.n + 1]
                        /\ pc' = [pc EXCEPT ![r] =
                                IF l.n = Len(l.extracted_drugs) \/ Len(FoundRxcui(map)) >= 2
                                THEN "collect" ELSE "resolve"]
                        /\ UNCHANGED response
    /\ UNCHANGED ddi_df

\* one element of the dict comprehension of line 52
CheckInteractions_Resolve(r) ==
    /\ pc[r] = "resolve"
    /\ LET l == locals[r]
           drug == l.extracted_drugs[l.n]
       IN  \E resp \in RxcuiResponses :
            LET out == get_rxcui(resp)
            IN  /\ calls' = [calls EXCEPT ![r] = Append(@, Call("get_rxcui", <<drug>>))]
                /\ IF out.raised # ""
                   THEN /\ Finish(r, Unhandled(out.raised))
                        /\ UNCHANGED locals
                   ELSE /\ locals' = [locals EXCEPT
                                ![r].rxcui_map = DictSet(l.rxcui_map, drug, out.value),
                                ![r].n = l.n + 1]
                        /\ pc' = [pc EXCEPT ![r] =
                                IF l.n = Len(l.extracted_drugs) THEN "collect" ELSE "resolve"]
                        /\ UNCHANGED response
    /\ UNCHANGED ddi_df

\* lines 54-59
CheckInteractions_Collect(r) ==
    /\ pc[r] = "collect"
    /\ LET found == FoundRxcui(locals[r].rxcui_map)
       IN  /\ locals' = [locals EXCEPT ![r].found_rxcui = found,
                                       ![r].i = IF Len(found) < 2 THEN 0 ELSE 1,
                                       ![r].j = IF Len(found) < 2 THEN 0 ELSE 2]
           /\ IF Len(found) < 2
              THEN Finish(r, Ok(NotEnoughMessage, <<>>))
              ELSE /\ pc' = [pc EXCEPT ![r] = "pairs"]
                   /\ UNCHANGED response
    /\ UNCHANGED <<ddi_df, calls>>

\* Mutant of CheckInteractions_Pair: the query takes the matching rows out
\* of the shared dataset.
CheckInteractions_Pair_Consuming(r) ==
    /\ pc[r] = "pairs"
    /\ LET l == locals[r]
           rxcui1 == l.found_rxcui[l.i]
           rxcui2 == l.found_rxcui[l.j]
           interaction == QueryDdi(ddi_df, rxcui1, rxcui2)
           interactions == l.interactions \o RowResults(interaction.value)
           nxt == NextPair(l.i, l.j, Len(l.found_rxcui))
           Kept(row) == ~MatchesPair(row, rxcui1, rxcui2)
       IN  /\ calls' = [calls EXCEPT ![r] = Append(@, Call("ddi_df", <<rxcui1, rxcui2>>))]
           /\ IF interaction.raised # ""
              THEN /\ Finish(r, Unhandled(interaction.raised))
                   /\ UNCHANGED <<locals, ddi_df>>
              ELSE /\ locals' = [locals EXCEPT ![r].interactions = interactions,
                                               ![r].i = nxt[1], ![r].j = nxt[2]]
                   /\ ddi_df' = [ddi_df EXCEPT !.rows = SelectSeq(@, Kept)]
                   /\ IF nxt = <<0, 0>>
                      THEN Finish(r, Ok(CheckedMessage, interactions))
                      ELSE UNCHANGED <<pc, response>>

\* one pass of the inner loop, lines 63-82, and the return of line 84
CheckInteractions_Pair(r) ==
    /\ pc[r] = "pairs"
    /\ LET l == locals[r]
           rxcui1 == l.found_rxcui[l.i]
           rxcui2 == l.found_rxcui[l.j]
           interaction == QueryDdi(ddi_df, rxcui1, rxcui2)
           interactions == l.interactions \o RowResults(interaction.value)
           nxt == NextPair(l.i, l.j, Len(l.found_rxcui))
       IN  /\ calls' = [calls EXCEPT ![r] = Append(@, Call("ddi_df", <<rxcui1, rxcui2>>))]
           /\ IF interaction.raised # ""
              THEN /\ Finish(r, Unhandled(interaction.raised))
                   /\ UNCHANGED locals
              ELSE /\ locals' = [locals EXCEPT ![r].interactions = interactions,
                                               ![r].i = nxt[1], ![r].j = nxt[2]]
                   /\ IF nxt = <<0, 0>>
                      THEN Finish(r, Ok(CheckedMessage, interactions))
                      ELSE UNCHANGED <<pc, response>>
    /\ UNCHANGED ddi_df

\* ----------------------------------------------------- dosage_alternatives
Ages == {17, 18, 65, 66}
OneTabletDaily == <<"1"," ","T","a","b","l","e","t"," ","d","a","i","l","y">>
SyrupTwiceDaily == <<"S","y","r","u","p"," ","t","w","i","c","e">>
Texts == {OneTabletDaily, SyrupTwiceDaily}

Appropriate == "Appropriate"
ChildrenAdjustment == "May need dosage adjustment for children."
ElderlyMonitoring == "Monitor closely for elderly patients."
DosageCheckedMessage == "Dosage and alternatives checked successfully."

\* Mutant of DosageStatus: the age limits taken inclusively.
DosageStatus_Inclusive(age, text) ==
    IF age <= 18 /\ Contains(<<"t","a","b","l","e","t">>, Lower(text)) THEN ChildrenAdjustment
    ELSE IF age >= 65 THEN ElderlyMonitoring
    ELSE Appropriate

\* lines 103-107
DosageStatus(age, text) ==
    IF age < 18 /\ Contains(<<"t","a","b","l","e","t">>, Lower(text)) THEN ChildrenAdjustment
    ELSE IF age > 65 THEN ElderlyMonitoring
    ELSE Appropriate

\* `if rxcui:`
Truthy(rxcui) == rxcui # None /\ rxcui # ""

\* the dict appended for one resolved drug, lines 109-115
DosageResult(drug, rxcui, dosage_forms, alternatives, dosage_status) ==
    [drug |-> drug, rxcui |-> rxcui, dosage_forms |-> dosage_forms,
     alternatives |-> alternatives, dosage_status |-> dosage_status]

\* lines 91-95 for the request (age, text) and the extractor output drugs
DosageAlternatives_Extract(r, drugs, age, text) ==
    /\ pc[r] = "idle"
    /\ locals' = [locals EXCEPT ![r] =
            [NoLocals EXCEPT !.kind = "dosage_alternatives",
                             !.extracted_drugs = drugs, !.n = 1,
                             !.age = age, !.text = text]]
    /\ IF drugs = <<>>
       THEN Finish(r, NoDrugsFound)
       ELSE /\ pc' = [pc EXCEPT ![r] = "drugs"]
            /\ UNCHANGED response
    /\ UNCHANGED <<ddi_df, calls>>

DosageAlternatives_Begin(r) ==
    /\ FreeSlot(r)
    /\ \E drugs \in ExtractorOutputs(MaxDosageMentions), age \in Ages, text \in Texts :
          DosageAlternatives_Extract(r, drugs, age, text)

\* the loop moves on to the next drug with the results so far, or returns
\* them (line 117) after the last drug
NextDrug(r, results) ==
    LET l == locals[r]
    IN  /\ locals' = [locals EXCEPT ![r].results = results, ![r].n = l.n + 1,
                                    ![r].rxcui = None, ![r].dosage_forms = <<>>,
                                    ![r].ingredient_rxcui = None]
        /\ IF l.n = Len(l.extracted_drugs)
           THEN Finish(r, Ok(DosageCheckedMessage, results))
           ELSE /\ pc' = [pc EXCEPT ![r] = "drugs"]
                /\ UNCHANGED response

\* results.append(...) of lines 109-115 with the alternatives found
AppendResult(r, alternatives) ==
    LET l == locals[r]
    IN  NextDrug(r, Append(l.results,
                    DosageResult(l.extracted_drugs[l.n], l.rxcui, l.dosage_forms,
                                 alternatives, DosageStatus(l.age, l.text))))

\* lines 96-98: the lookup of one drug and the `if rxcui:`
DosageAlternatives_Lookup(r) ==
    /\ pc[r] = "drugs"
    /\ LET l == locals[r]
           drug == l.extracted_drugs[l.n]
       IN  \E resp \in RxcuiResponses :
            LET rx == get_rxcui(resp)
            IN  /\ calls' = [calls EXCEPT ![r] = Append(@, Call("get_rxcui", <<drug>>))]
                /\ IF rx.raised # ""
                   THEN /\ Finish(r, Unhandled(rx.raised))
                        /\ UNCHANGED locals
                   ELSE IF Truthy(rx.value)
                   THEN /\ locals' = [locals EXCEPT ![r].rxcui = rx.value]
                        /\ pc' = [pc EXCEPT ![r] = "forms"]
                        /\ UNCHANGED response
                   ELSE NextDrug(r, l.results)
    /\ UNCHANGED ddi_df

\* line 99
DosageAlternatives_Forms(r) ==
    /\ pc[r] = "forms"
    /\ \E resp \in RelatedResponses(FormProps) :
        LET forms == get_dosage_forms(resp)
        IN  /\ calls' = [calls EXCEPT ![r] =
                    Append(@, Call("get_dosage_forms", <<locals[r].rxcui>>))]
            /\ IF forms.raised # ""
               THEN /\ Finish(r, Unhandled(forms.raised))
                    /\ UNCHANGED locals
               ELSE /\ locals' = [locals EXCEPT ![r].dosage_forms = forms.value]
                    /\ pc' = [pc EXCEPT ![r] = "ingredient"]
                    /\ UNCHANGED response
    /\ UNCHANGED ddi_df

\* line 100, the first request of get_alternatives
DosageAlternatives_Ingredient(r) ==
    /\ pc[r] = "ingredient"
    /\ \E resp \in RelatedResponses(IngredientProps) :
        LET ing == AlternativesIngredient(resp)
        IN  /\ calls' = [calls EXCEPT ![r] =
                    Append(@, Call("get_alternatives_IN", <<locals[r].rxcui>>))]
            /\ IF ing.raised # ""
               THEN /\ Finish(r, Unhandled(ing.raised))
                    /\ UNCHANGED locals
               ELSE IF ing.skip
               THEN AppendResult(r, <<>>)
               ELSE /\ locals' = [locals EXCEPT ![r].ingredient_rxcui = ing.value]
                    /\ pc' = [pc EXCEPT ![r] = "products"]
                    /\ UNCHANGED response
    /\ UNCHANGED ddi_df

\* line 100, the second request of get_alternatives
DosageAlternatives_Products(r) ==
    /\ pc[r] = "products"
    /\ \E resp \in RelatedResponses(BrandProps) :
        LET alt == AlternativesProducts(resp)
        IN  /\ calls' = [calls EXCEPT ![r] =
                    Append(@, Call("get_alternatives_SBD", <<locals[r].ingredient_rxcui>>))]
            /\ IF alt.raised # ""
               THEN /\ Finish(r, Unhandled(alt.raised))
                    /\ UNCHANGED locals
               ELSE AppendResult(r, alt.value)
    /\ UNCHANGED ddi_df

\* the response is sent and the handler's frame is gone
Respond(r) ==
    /\ pc[r] = "done"
    /\ pc' = [pc EXCEPT ![r] = "idle"]
    /\ locals' = [locals EXCEPT ![r] = NoLocals]
    /\ response' = [response EXCEPT ![r] = NoResponse]
    /\ calls' = [calls EXCEPT ![r] = <<>>]
    /\ UNCHANGED ddi_df

Init ==
    /\ ddi_df \in { load_ddi_dataset(f) : f \in Files }
    /\ pc = [r \in Reqs |-> "idle"]
    /\ locals = [r \in Reqs |-> NoLocals]
    /\ response = [r \in Reqs |-> NoResponse]
    /\ calls = [r \in Reqs |-> <<>>]

Next ==
    \E r \in Reqs :
        \/ CheckInteractions_Begin(r)
        \/ CheckInteractions_Resolve(r)
        \/ CheckInteractions_Collect(r)
        \/ CheckInteractions_Pair(r)
        \/ DosageAlternatives_Begin(r)
        \/ DosageAlternatives_Lookup(r)
        \/ DosageAlternatives_Forms(r)
        \/ DosageAlternatives_Ingredient(r)
        \/ DosageAlternatives_Products(r)
        \/ Respond(r)

\* both endpoints, over every reference file
Spec == Init /\ [][Next]_vars

\* both endpoints, over a reference file of a header line and no data rows:
\* what the endpoints do apart from the content of the dataset
InitNoRows == Init /\ ddi_df = load_ddi_dataset(HeaderOnly)

SpecNoRows == InitNoRows /\ [][Next]_vars

\* the /check_interactions endpoint alone, over every reference file
NextInteractions ==
    \E r \in Reqs :
        \/ CheckInteractions_Begin(r)
        \/ CheckInteractions_Resolve(r)
        \/ CheckInteractions_Collect(r)
        \/ CheckInteractions_Pair(r)
        \/ Respond(r)

SpecInteractions == Init /\ [][NextInteractions]_vars

\* descriptions a reference row may carry beyond those of RowPool: one with
\* a caution and a severe keyword together, one with a caution keyword in
\* capitals
MonitorForIncreasedRisk ==
    <<"M","o","n","i","t","o","r"," ","f","o","r"," ","i","n","c","r","e","a","s","e","d"," ","r","i","s","k">>
MayDecreaseAbsorption ==
    <<"M","a","y"," ","D","E","C","R","E","A","S","E"," ","a","b","s","o","r","p","t","i","o","n">>
Descriptions ==
    { RiskOfSevereBleeding, MonitorForCaution, NoNotableEffect,
      MonitorForIncreasedRisk, MayDecreaseAbsorption }

\* a reference file of one row for the pair (161, 11289)
DescribedFile(d) ==
    [exists |-> TRUE,
     rows |-> << [RxCUI_1 |-> "161", RxCUI_2 |-> "11289", Drug_1 |-> "Paracetamol",
                  Drug_2 |-> "Warfarin", Description |-> d] >>]

\* the /check_interactions endpoint over one-row reference files of every
\* description: what the risk summarizer makes of a row
InitSummarizer ==
    /\ ddi_df \in { load_ddi_dataset(DescribedFile(d)) : d \in Descriptions }
    /\ pc = [r \in Reqs |-> "idle"]
    /\ locals = [r \in Reqs |-> NoLocals]
    /\ response = [r \in Reqs |-> NoResponse]
    /\ calls = [r \in Reqs |-> <<>>]

SpecSummarizer == InitSummarizer /\ [][NextInteractions]_vars

\* Two requests in flight at once, their steps interleaved at every
\* collaborator call (the schedule of a server that runs handlers side by
\* side; the event loop's one-at-a-time schedule is among them). The
\* extractor answers nothing, one name, or the shipped pair of names; a
\* dosage request, whose handler makes up to four calls per name, is taken
\* with at most one name.
ConcurrentOutputs == { <<>>, <<"Warfarin">>, <<"Paracetamol", "Warfarin">> }
ConcurrentDosageOutputs == { <<>>, <<"Warfarin">> }
ConcurrentAges == {17, 66}

CheckInteractions_Arrive(r) ==
    \E drugs \in ConcurrentOutputs : CheckInteractions_Extract(r, drugs)

DosageAlternatives_Arrive(r) ==
    \E drugs \in ConcurrentDosageOutputs, age \in ConcurrentAges :
        DosageAlternatives_Extract(r, drugs, age, OneTabletDaily)

\* a reference file of the two rows stored for the pair in opposite orders
TwoRowFile ==
    [exists |-> TRUE,
     rows |-> << [RxCUI_1 |-> "161", RxCUI_2 |-> "11289", Drug_1 |-> "Paracetamol",
                  Drug_2 |-> "Warfarin", Description |-> RiskOfSevereBleeding],
                 [RxCUI_1 |-> "11289", RxCUI_2 |-> "161", Drug_1 |-> "Warfarin",
                  Drug_2 |-> "Paracetamol", Description |-> MonitorForCaution] >>]

InitConcurrent == Init /\ ddi_df = load_ddi_dataset(TwoRowFile)

NextConcurrent ==
    \E r \in Reqs :
        \/ CheckInteractions_Arrive(r)
        \/ CheckInteractions_Resolve(r)
        \/ CheckInteractions_Collect(r)
        \/ CheckInteractions_Pair(r)
        \/ DosageAlternatives_Arrive(r)
        \/ DosageAlternatives_Lookup(r)
        \/ DosageAlternatives_Forms(r)
        \/ DosageAlternatives_Ingredient(r)
        \/ DosageAlternatives_Products(r)
        \/ Respond(r)

SpecConcurrent == InitConcurrent /\ [][NextConcurrent]_vars

\* the /dosage_alternatives endpoint alone; it never reads ddi_df, so the
\* reference file is left out of the enumeration
NextDosage ==
    \E r \in Reqs :
        \/ DosageAlternatives_Begin(r)
        \/ DosageAlternatives_Lookup(r)
        \/ DosageAlternatives_Forms(r)
        \/ DosageAlternatives_Ingredient(r)
        \/ DosageAlternatives_Products(r)
        \/ Respond(r)

SpecDosage == InitNoRows /\ [][NextDosage]_vars

\* ===================================================================
\* Properties
\* ===================================================================
Done(r) == pc[r] = "done"
IsCheck(r) == locals[r].kind = "check_interactions"
IsDosage(r) == locals[r].kind = "dosage_alternatives"

\* the calls of one kind a request has issued, in order
CallsOf(r, op) == LET Is(c) == c.op = op IN SelectSeq(calls[r], Is)

\* the unordered pair a dataset query was made for
PairOf(c) == {c.arg[1], c.arg[2]}

Reverse(s) == [k \in 1..Len(s) |-> s[Len(s) + 1 - k]]

\* C1: with an empty or missing reference dataset, a check_interactions
\* request with two or more resolved identifiers still succeeds, with an
\* empty interaction list (no pair query raises).
C1_EmptyDatasetStillSucceeds ==
    \A r \in Reqs :
        (Done(r) /\ IsCheck(r) /\ ddi_df.rows = <<>> /\ Len(locals[r].found_rxcui) >= 2)
            => response[r] = Ok(CheckedMessage, <<>>)

\* C2: the interaction search is symmetric: the list a request builds from
\* the resolved identifiers [X, Y] is the list the search yields on [Y, X].
C2_SearchSymmetric ==
    \A r \in Reqs :
        (Done(r) /\ IsCheck(r) /\ response[r].status = 200
                 /\ Len(locals[r].found_rxcui) = 2)
            => response[r].payload = FindInteractions(ddi_df, Reverse(locals[r].found_rxcui))

\* C2 witness: a finished request over [X, Y], X # Y, with a stored (X, Y)
\* row that it reports.
C2_Witness ==
    \E r \in Reqs :
        /\ Done(r) /\ IsCheck(r) /\ response[r].status = 200
        /\ Len(locals[r].found_rxcui) = 2
        /\ locals[r].found_rxcui[1] # locals[r].found_rxcui[2]
        /\ \E k \in 1..Len(ddi_df.rows) :
              /\ ddi_df.rows[k].RxCUI_1 = locals[r].found_rxcui[1]
              /\ ddi_df.rows[k].RxCUI_2 = locals[r].found_rxcui[2]
        /\ response[r].payload # <<>>

\* C3: within one request no identifier pair is queried against the
\* reference dataset more than once.
C3_NoPairQueriedTwice ==
    \A r \in Reqs :
        LET q == CallsOf(r, "ddi_df")
        IN  \A a, b \in 1..Len(q) : a < b => PairOf(q[a]) # PairOf(q[b])

\* the rows of the dataset matching the pair of query c in either order
C4_Matching(c) ==
    LET Hit(row) == {row.RxCUI_1, row.RxCUI_2} = PairOf(c)
    IN  SelectSeq(ddi_df.rows, Hit)

RECURSIVE C4_ExpectedRows(_)
C4_ExpectedRows(q) ==
    IF q = <<>> THEN <<>> ELSE C4_Matching(Head(q)) \o C4_ExpectedRows(Tail(q))

\* C4: the interactions of a successful request are, query by query, one
\* result for every dataset row matching the queried pair in either order,
\* each with the alert the risk summarizer gives for that row's description;
\* no other row yields a result.
C4_OneResultPerMatchingRow ==
    \A r \in Reqs :
        (Done(r) /\ IsCheck(r) /\ response[r].status = 200)
            => LET exp == C4_ExpectedRows(CallsOf(r, "ddi_df"))
                   got == response[r].payload
               IN  /\ Len(got) = Len(exp)
                   /\ \A k \in 1..Len(exp) :
                        /\ got[k].rxcui1 = exp[k].RxCUI_1
                        /\ got[k].rxcui2 = exp[k].RxCUI_2
                        /\ got[k].drug1 = exp[k].Drug_1
                        /\ got[k].drug2 = exp[k].Drug_2
                        /\ got[k].description = exp[k].Description
                        /\ got[k].alert = get_ibm_granite_alerts(exp[k].Description)

\* C4 witness: a single queried pair with two matching rows, stored in
\* opposite orders, both reported.
C4_Witness ==
    \E r \in Reqs :
        /\ Done(r) /\ IsCheck(r) /\ response[r].status = 200
        /\ Len(CallsOf(r, "ddi_df")) = 1
        /\ Len(response[r].payload) = 2
        /\ response[r].payload[1].rxcui1 # response[r].payload[2].rxcui1

\* C5: a check_interactions request in which at least one mention was
\* extracted, every mention was looked up and fewer than two resolved,
\* answers the "not enough drugs" message with an empty list, never an
\* error, and queries the dataset not at all.
C5_NotEnoughNeverAnError ==
    \A r \in Reqs :
        (/\ Done(r) /\ IsCheck(r)
         /\ locals[r].extracted_drugs # <<>>
         /\ Len(CallsOf(r, "get_rxcui")) = Len(locals[r].extracted_drugs)
         /\ Len(FoundRxcui(locals[r].rxcui_map)) < 2)
            => /\ response[r] = Ok(NotEnoughMessage, <<>>)
               /\ CallsOf(r, "ddi_df") = <<>>

\* the names looked up by a request, in the order of the lookups
LookedUp(r) ==
    LET q == CallsOf(r, "get_rxcui") IN [k \in 1..Len(q) |-> q[k].arg[1]]

Range(f) == {f[k] : k \in DOMAIN f}

Last(s) == s[Len(s)]

\* C7: no identifier lookup raises: a request never ends in an unhandled
\* exception at a get_rxcui call.
C7_LookupNeverRaises ==
    \A r \in Reqs :
        (Done(r) /\ calls[r] # <<>> /\ Last(calls[r]).op = "get_rxcui")
            => response[r].status # 500

\* C8: get_dosage_forms never propagates an exception when no dosage-form
\* data is available: a request never ends in the unhandled KeyError of a
\* first concept group that carries no conceptProperties.
C8_DosageFormsNeverRaise ==
    \A r \in Reqs :
        (Done(r) /\ calls[r] # <<>> /\ Last(calls[r]).op = "get_dosage_forms")
            => response[r] # Unhandled("KeyError")

\* the mentions of a request that resolved (their lookup was followed by the
\* dosage-form lookup), in extraction order
ResolvedMentions(r) ==
    LET c == calls[r]
        Resolved(k) == /\ c[k].op = "get_rxcui"
                       /\ k < Len(c)
                       /\ c[k + 1].op = "get_dosage_forms"
        idx == SelectSeq([k \in 1..Len(c) |-> k], Resolved)
    IN  [k \in 1..Len(idx) |-> c[idx[k]].arg[1]]

\* C9: a dosage_alternatives request with at least one extracted mention
\* succeeds, and its results are, in extraction order, one entry per mention
\* that resolved.
C9_OneEntryPerResolvedMention ==
    \A r \in Reqs :
        (Done(r) /\ IsDosage(r) /\ locals[r].extracted_drugs # <<>>)
            => /\ response[r].status = 200
               /\ [k \in 1..Len(response[r].payload) |-> response[r].payload[k].drug]
                    = ResolvedMentions(r)

\* C10: a finished request answers 404 "no drugs found" exactly when the
\* extractor returned nothing, in both endpoints.
C10_NoDrugsIsNotFound ==
    \A r \in Reqs :
        Done(r) =>
            /\ (locals[r].extracted_drugs = <<>>) <=> (response[r].status = 404)
            /\ (locals[r].extracted_drugs = <<>>)
                  => response[r].message = "No drugs found in the prescription."

\* C10 witness: a dosage_alternatives request answered 404 on an empty
\* extraction.
C10_Witness ==
    \E r \in Reqs :
        /\ Done(r) /\ IsDosage(r)
        /\ locals[r].extracted_drugs = <<>>
        /\ response[r].status = 404

\* C11: every entry of a dosage_alternatives response carries the same
\* dosage_status, fixed by the request's age and text alone: the children
\* label when age < 18 and the lower-cased text contains "tablet", else the
\* elderly label when age > 65, else "Appropriate".
C11_StatusByAgeAndText ==
    \A r \in Reqs :
        (Done(r) /\ IsDosage(r) /\ response[r].status = 200)
            => \A k \in 1..Len(response[r].payload) :
                  response[r].payload[k].dosage_status =
                     IF locals[r].age < 18
                        /\ Contains(<<"t","a","b","l","e","t">>, Lower(locals[r].text))
                     THEN "May need dosage adjustment for children."
                     ELSE IF locals[r].age > 65
                     THEN "Monitor closely for elderly patients."
                     ELSE "Appropriate"

\* C11 witness: a response of two entries for a patient under 18 whose
\* text spells "Tablet" with a capital, both labelled for children.
C11_Witness ==
    \E r \in Reqs :
        /\ Done(r) /\ IsDosage(r) /\ response[r].status = 200
        /\ locals[r].age < 18 /\ locals[r].text = OneTabletDaily
        /\ Len(response[r].payload) = 2
        /\ response[r].payload[1].dosage_status = ChildrenAdjustment
        /\ response[r].payload[2].dosage_status = ChildrenAdjustment

\* the keywords of a set that occur in a description, case ignored
C12_Has(keywords, description) ==
    \E kw \in keywords : Contains(kw, Lower(description))

\* C12: the alert of every reported interaction is exactly one of the three
\* messages, by strict precedence over the row's description: the severe
\* message whenever a severe keyword occurs (a caution keyword occurring too
\* changes nothing), else the high-risk message when a caution keyword
\* occurs, else the no-severe-risk message.
C12_SeverePrecedesCaution ==
    \A r \in Reqs :
        (Done(r) /\ IsCheck(r) /\ response[r].status = 200)
            => \A k \in 1..Len(response[r].payload) :
                  LET e == response[r].payload[k]
                      severe == C12_Has(SevereKeywords, e.description)
                      caution == C12_Has(CautionKeywords, e.description)
                  IN  /\ e.alert \in {SevereAlert, HighRiskAlert, NoRiskAlert}
                      /\ severe => e.alert = SevereAlert
                      /\ (~severe /\ caution) => e.alert = HighRiskAlert
                      /\ (~severe /\ ~caution) => e.alert = NoRiskAlert

\* C12 witness: a reported interaction whose description holds a severe
\* and a caution keyword, given the severe message.
C12_Witness ==
    \E r \in Reqs :
        /\ Done(r) /\ IsCheck(r) /\ response[r].status = 200
        /\ \E k \in 1..Len(response[r].payload) :
              /\ C12_Has(SevereKeywords, response[r].payload[k].description)
              /\ C12_Has(CautionKeywords, response[r].payload[k].description)
              /\ response[r].payload[k].alert = SevereAlert

\* what belongs to one request: its position, its local variables, its
\* answer and the calls it has issued
C13_Own(r) == <<pc[r], locals[r], response[r], calls[r]>>

\* the answer a check_interactions request gives when it runs alone, from
\* its own extractor output, its own lookups and the dataset as loaded
C13_CheckAlone(r) ==
    LET found == FoundRxcui(locals[r].rxcui_map)
    IN  IF locals[r].extracted_drugs = <<>> THEN NoDrugsFound
        ELSE IF Len(found) < 2 THEN Ok(NotEnoughMessage, <<>>)
        ELSE Ok(CheckedMessage, FindInteractions(load_ddi_dataset(TwoRowFile), found))

\* C13: the dataset is loaded once and only read, and no handler touches
\* anything shared: under every interleaving of two requests, a step changes
\* the state of one request at most and never the dataset, and each request
\* that completes answers what it answers when run alone, a function of its
\* own inputs and the dataset as loaded.
C13_RequestsIsolated ==
    /\ [](\A r \in Reqs :
            (Done(r) /\ response[r].status # 500)
                => /\ IsCheck(r) => response[r] = C13_CheckAlone(r)
                   /\ IsDosage(r) /\ locals[r].extracted_drugs = <<>>
                         => response[r] = NoDrugsFound
                   /\ IsDosage(r) /\ locals[r].extracted_drugs # <<>>
                         => /\ response[r] = Ok(DosageCheckedMessage, locals[r].results)
                            /\ \A k \in 1..Len(response[r].payload) :
                                 /\ response[r].payload[k].drug
                                       \in Range(locals[r].extracted_drugs)
                                 /\ response[r].payload[k].dosage_status
                                       = DosageStatus(locals[r].age, locals[r].text))
    /\ [][ /\ ddi_df' = ddi_df
           /\ \A r, q \in Reqs :
                (r # q /\ C13_Own(r)' # C13_Own(r)) => C13_Own(q)' = C13_Own(q) ]_vars

\* C13 witness: two requests in the middle of their handlers at once, a
\* check_interactions request about to answer while a dosage_alternatives
\* request stands between its two alternatives lookups, and the reverse
\* assignment of the two to the slots.
C13_Witness ==
    \E r, q \in Reqs :
        /\ r # q
        /\ Done(r) /\ IsCheck(r) /\ Len(response[r].payload) = 2
        /\ IsDosage(q) /\ pc[q] = "products" /\ Len(calls[q]) = 3

\* the identifiers a request resolved, in the position order of the drug
\* names in the extractor's output (a repeated name counts where it first
\* stands, with the identifier the request holds for it)
C14_Resolved(r) ==
    LET drugs == locals[r].extracted_drugs
        IdOf(name) == (CHOOSE e \in Range(locals[r].rxcui_map) : e.drug = name).rxcui
        First(k) == /\ \A h \in 1..(k - 1) : drugs[h] # drugs[k]
                    /\ IdOf(drugs[k]) # None
        idx == SelectSeq([k \in 1..Len(drugs) |-> k], First)
    IN  [k \in 1..Len(idx) |-> IdOf(drugs[idx[k]])]

\* the places <<i, j, m>> of the results: pair (i, j), i < j, of resolved
\* identifiers and dataset row m matching that pair in either order
C14_Places(r) ==
    LET ids == C14_Resolved(r)
    IN  { t \in (1..Len(ids)) \X (1..Len(ids)) \X (1..Len(ddi_df.rows)) :
            /\ t[1] < t[2]
            /\ {ddi_df.rows[t[3]].RxCUI_1, ddi_df.rows[t[3]].RxCUI_2}
                  = {ids[t[1]], ids[t[2]]} }

\* pair-iteration order, then dataset row order
C14_Before(a, b) ==
    \/ a[1] < b[1]
    \/ a[1] = b[1] /\ a[2] < b[2]
    \/ a[1] = b[1] /\ a[2] = b[2] /\ a[3] < b[3]

C15_AlternativesNeverRaise ==
    \A r \in Reqs :
        (Done(r) /\ calls[r] # <<>>
                 /\ Last(calls[r]).op \in {"get_alternatives_IN", "get_alternatives_SBD"})
            => response[r] # Unhandled("KeyError")

\* C16: a request whose extractor output is empty is rejected with no
\* collaborator touched (no identifier lookup, no dosage-form or
\* alternatives lookup, no dataset query); and in check_interactions every
\* identifier lookup of the request, one per extracted mention, is over
\* before the first dataset query.
C16_RejectedBeforeAnyCall ==
    \A r \in Reqs :
        /\ (locals[r].kind # "none" /\ locals[r].extracted_drugs = <<>>)
              => /\ calls[r] = <<>>
                 /\ Done(r) /\ response[r].status = 404
        /\ \A k \in 1..Len(calls[r]) :
              calls[r][k].op = "ddi_df"
                 => /\ \A h \in 1..Len(calls[r]) : calls[r][h].op = "get_rxcui" => h < k
                    /\ Len(CallsOf(r, "get_rxcui")) = Len(locals[r].extracted_drugs)

\* C16 witness: a check_interactions request of three mentions that made
\* its three lookups and then queried the dataset for three pairs.
C16_Witness ==
    \E r \in Reqs :
        /\ Done(r) /\ IsCheck(r)
        /\ Len(locals[r].extracted_drugs) = 3
        /\ Len(CallsOf(r, "get_rxcui")) = 3
        /\ Len(CallsOf(r, "ddi_df")) = 3
        /\ calls[r][4].op = "ddi_df"

====
